---- MODULE Spec2Model ----
(***************************************************************************)
(* A model of the chasm assembler front end: the token collecting loop of  *)
(* main.cpp, the recursive-descent parser of parser.cpp and the            *)
(* sanitize / stable_sort / generator pipeline of ast.cpp.                 *)
(*                                                                         *)
(* A token is a record [type, str, num]: `type` is the token_type          *)
(* enumerator (lexer.hpp:20-47) and (str, num) is the std::variant         *)
(* payload `data` (lexer.hpp:53): a numerical token holds the uint16_t     *)
(* alternative in `num`, every other token holds the std::string           *)
(* alternative in `str`.                                                   *)
(***************************************************************************)
EXTENDS Integers, Sequences, FiniteSets, TLC

VARIABLES
    input,       \* the program: the tokens the lexer finds, or the vector given to parser::parser
    tokens,      \* parser::tokens, or the local vector `tokens` of main
    pos,         \* parser::token_it, as a 1-based index; Len(tokens) + 1 is std::end(tokens)
    stack,       \* the open parse_procedure / parse_label calls, innermost last
    branches,    \* make_tree's local `branches`
    cur,         \* the locals of parse_sprite or parse_instruction while its loop runs
    pc,          \* where the program is
    err,         \* the exception that ended the run, "none" while there is none
    errTokens,   \* the tokens the exception carries
    statements,  \* abstract_tree::statements
    words,       \* the machine words generator.generate returned
    derefEnd,    \* history: token_it was dereferenced while equal to std::end(tokens)
    oobWrite     \* history: sprite.data was written at an index >= MAX_SPRITE_ROWS

vars == <<input, tokens, pos, stack, branches, cur, pc, err, errTokens,
          statements, words, derefEnd, oobWrite>>

(***************************************************************************)
(* Bounds of the model.                                                    *)
(***************************************************************************)
MaxChunks == 3        \* a program is a concatenation of at most MaxChunks chunks
MaxExtraRows == 2     \* sprite literals have up to MAX_SPRITE_ROWS + MaxExtraRows rows

(***************************************************************************)
(* Tokens.                                                                 *)
(***************************************************************************)
Tok(t, s) == [type |-> t, str |-> s, num |-> 0]
Num(n) == [type |-> "numerical", str |-> "", num |-> n]
NoTok == [type |-> "none", str |-> "", num |-> 0]

EofTok == Tok("eof", "")

\* std::variant operator!= on token::data: same alternative and same value
data_equal(a, b) ==
    /\ (a.type = "numerical") = (b.type = "numerical")
    /\ a.str = b.str
    /\ a.num = b.num

\* token::to_integer
to_integer(t) == t.num

\* arch::MAX_SPRITE_ROWS
MAX_SPRITE_ROWS == 15

\* arch::imm_matches_format(value, arch::fmt_imm8)
imm_matches_format_imm8(value) == value >= 0 /\ value <= 255

(***************************************************************************)
(* The cursor.                                                             *)
(***************************************************************************)
\* parser::no_more_tokens
no_more_tokens(p) == p = Len(tokens) + 1

\* *token_it: reading at std::end(tokens) is undefined; the model reads NoTok
\* there and records the read in derefEnd
deref(p) == IF p >= 1 /\ p <= Len(tokens) THEN tokens[p] ELSE NoTok

Fail(e, t, p) == [ok |-> FALSE, err |-> e, tok |-> t, pos |-> p]
Got(t, p) == [ok |-> TRUE, err |-> "none", tok |-> t, pos |-> p]

\* the tokens the exception e carries: unexpected_error carries the token it
\* met, the chasm_exception of advance carries none
carried(e) == IF e.err = "unexpected_token" THEN <<e.tok>> ELSE <<>>

\* a read of *token_it made behind a no_more_tokens test, with the cursor at
\* p: it is a read outside the tokens only when p is past std::end(tokens)
guarded_read_outside(p) == ~no_more_tokens(p) /\ ~(p >= 1 /\ p <= Len(tokens))

\* advance without its no_more_tokens test
advance_unchecked(p) == Got(deref(p), p + 1)

\* parser::advance
advance(p) ==
    IF no_more_tokens(p)
    THEN Fail("expected_more_tokens", NoTok, p)
    ELSE Got(deref(p), p + 1)

\* parser::expect(types...)
expect(p, types) ==
    LET a == advance(p) IN
    IF ~a.ok THEN a
    ELSE IF a.tok.type \in types THEN a
    ELSE Fail("unexpected_token", a.tok, a.pos)

\* parser::advance_if(type): the cursor after the call
advance_if(p, type) ==
    IF ~no_more_tokens(p) /\ deref(p).type = type THEN p + 1 ELSE p

\* parser::next_any_of(types...)
next_any_of(p, types) == ~no_more_tokens(p) /\ deref(p).type \in types

(***************************************************************************)
(* Statements.  One record shape for the seven statement kinds; `from` and *)
(* `upto` are history fields: the cursor when the statement's parser was   *)
(* called and when it returned.  `commas` is a history field too: the      *)
(* commas parse_operands consumed for the instruction.                     *)
(***************************************************************************)
NoSprite == [data |-> [i \in 1..MAX_SPRITE_ROWS |-> 0], row_count |-> 0]

Stmt(k, t1, t2, from, upto) ==
    [kind |-> k, tok1 |-> t1, tok2 |-> t2, body |-> <<>>, operands |-> <<>>,
     commas |-> 0, sprite |-> NoSprite, from |-> from, upto |-> upto]

Done(s, p) == [ok |-> TRUE, err |-> "none", tok |-> NoTok, pos |-> p, stmt |-> s]
Thrown(e) == [ok |-> FALSE, err |-> e.err, tok |-> e.tok, pos |-> e.pos,
              stmt |-> Stmt("none", NoTok, NoTok, 0, 0)]

\* consecutive expect calls, one for each set of `ts`, from cursor p: the
\* tokens they returned in `toks`, or the first exception
RECURSIVE expect_all(_, _, _), expect_next(_, _, _)
expect_all(p, ts, got) ==
    IF ts = <<>>
    THEN [ok |-> TRUE, err |-> "none", tok |-> NoTok, pos |-> p, toks |-> got]
    ELSE CHOOSE r \in { expect_next(e, ts, got) : e \in {expect(p, ts[1])} } : TRUE
expect_next(e, ts, got) ==
    IF e.ok
    THEN expect_all(e.pos, Tail(ts), Append(got, e.tok))
    ELSE [ok |-> FALSE, err |-> e.err, tok |-> e.tok, pos |-> e.pos, toks |-> got]

raw_statement(p, r) ==
    IF r.ok THEN Done(Stmt("raw", r.toks[3], NoTok, p, r.pos), r.pos) ELSE Thrown(r)

\* parser::parse_raw
parse_raw(p) ==
    raw_statement(p, expect_all(p, <<{"keyword_raw"}, {"parenthesis_open"},
                                     {"numerical", "identifier"},
                                     {"parenthesis_close"}>>, <<>>))

define_statement(p, r) ==
    IF r.ok THEN Done(Stmt("define", r.toks[2], r.toks[3], p, r.pos), r.pos)
    ELSE Thrown(r)

\* parser::parse_define
parse_define(p) ==
    define_statement(p, expect_all(p, <<{"keyword_define"}, {"identifier"},
                                        {"numerical", "keyword_default"}>>, <<>>))

config_statement(p, r) ==
    IF r.ok THEN Done(Stmt("config", r.toks[2], r.toks[4], p, r.pos), r.pos)
    ELSE Thrown(r)

\* parser::parse_config
parse_config(p) ==
    config_statement(p, expect_all(p, <<{"keyword_config"}, {"identifier"}, {"equal"},
                                        {"numerical", "keyword_default"}>>, <<>>))

OperandStarters ==
    {"identifier", "register_name", "at_label", "hash_sprite", "dollar_proc",
     "numerical", "bracket_open"}

Operand(k, t, p) == [ok |-> TRUE, err |-> "none", tok |-> NoTok, pos |-> p,
                     operand |-> [kind |-> k, tok |-> t]]
NoOperand(e) == [ok |-> FALSE, err |-> e.err, tok |-> e.tok, pos |-> e.pos,
                 operand |-> [kind |-> "none", tok |-> NoTok]]

\* the cases of parse_operand that expect an identifier after the sigil
named_operand(k, e2) ==
    IF e2.ok THEN Operand(k, e2.tok, e2.pos) ELSE NoOperand(e2)

\* case token_type::bracket_open of parse_operand
indirect_operand(r) ==
    IF r.ok THEN Operand("indirect", r.toks[1], r.pos) ELSE NoOperand(r)

\* parse_operand after its first expect returned e1
operand_of(e1) ==
    IF ~e1.ok THEN NoOperand(e1)
    ELSE CASE e1.tok.type = "register_name" -> Operand("reg", e1.tok, e1.pos)
           [] e1.tok.type = "at_label" ->
                named_operand("label", expect(e1.pos, {"identifier"}))
           [] e1.tok.type = "dollar_proc" ->
                named_operand("proc", expect(e1.pos, {"identifier"}))
           [] e1.tok.type = "hash_sprite" ->
                named_operand("sprite", expect(e1.pos, {"identifier"}))
           [] e1.tok.type = "bracket_open" ->
                indirect_operand(expect_all(e1.pos, <<{"identifier", "numerical"},
                                                      {"bracket_close"}>>, <<>>))
           [] OTHER -> Operand("immediate", e1.tok, e1.pos)

\* parser::parse_operand
parse_operand(p) == operand_of(expect(p, OperandStarters))

(***************************************************************************)
(* The three statement dispatchers.  Each gives the branch its switch      *)
(* takes at cursor p.                                                      *)
(***************************************************************************)
primary_switch(p) ==
    CASE deref(p).type = "keyword_define" -> "define"
      [] deref(p).type = "keyword_config" -> "config"
      [] deref(p).type = "keyword_sprite" -> "sprite"
      [] deref(p).type = "keyword_raw" -> "raw"
      [] deref(p).type = "dot_label" -> "label"
      [] deref(p).type = "keyword_proc_start" -> "procedure"
      [] deref(p).type = "instruction" -> "instruction"
      [] OTHER -> "unexpected"

\* parser::parse_primary_statement
parse_primary_statement(p) ==
    IF no_more_tokens(p) THEN "return_tree" ELSE primary_switch(p)

proc_inner_switch(p, on_proc_start) ==
    CASE deref(p).type = "keyword_proc_end" -> "end"
      [] deref(p).type = "keyword_define" -> "define"
      [] deref(p).type = "keyword_config" -> "config"
      [] deref(p).type = "keyword_raw" -> "raw"
      [] deref(p).type = "instruction" -> "instruction"
      [] deref(p).type = "dot_label" -> "label"
      [] deref(p).type = "keyword_proc_start" -> on_proc_start
      [] OTHER -> "unexpected"

\* the lambda with a case that calls parse_procedure instead of throwing
proc_inner_allows_nesting(p) ==
    IF no_more_tokens(p) THEN "eof_in_procedure"
    ELSE proc_inner_switch(p, "procedure")

\* parse_procedure's lambda parse_inner_statement
proc_inner_statement(p) ==
    IF no_more_tokens(p) THEN "eof_in_procedure"
    ELSE proc_inner_switch(p, "nested_procedure")

label_inner_switch(p, ending) ==
    CASE deref(p).type \in ending -> "end"
      [] deref(p).type = "keyword_define" -> "define"
      [] deref(p).type = "keyword_config" -> "config"
      [] deref(p).type = "keyword_raw" -> "raw"
      [] deref(p).type = "instruction" -> "instruction"
      [] OTHER -> "unexpected"

\* the lambda with the eof token among the tokens that end a label
label_inner_eof_ends(p) ==
    IF no_more_tokens(p) THEN "end"
    ELSE label_inner_switch(p, {"keyword_proc_end", "dot_label", "eof"})

\* parse_label's lambda parse_inner_statement
label_inner_statement(p) ==
    IF no_more_tokens(p) THEN "end"
    ELSE label_inner_switch(p, {"keyword_proc_end", "dot_label"})

Top == stack[Len(stack)]

\* the function whose statement loop is running
Ctx == IF stack = <<>> THEN "make_tree" ELSE Top.kind

dispatch ==
    CASE Ctx = "make_tree" -> parse_primary_statement(pos)
      [] Ctx = "procedure" -> proc_inner_statement(pos)
      [] OTHER -> label_inner_statement(pos)

\* the running dispatcher read token_it->type although the cursor is not on a
\* token: at the end of the tokens only the three results below need no read
ReadsEnd == /\ ~(pos >= 1 /\ pos <= Len(tokens))
            /\ dispatch \notin {"return_tree", "eof_in_procedure", "end"}

LeafKinds == {"define", "config", "raw", "instruction"}

\* the statements parsed by a fixed run of expect calls
SimpleKinds == {"define", "config", "raw"}

parse_simple_statement(k, p) ==
    CASE k = "define" -> parse_define(p)
      [] k = "config" -> parse_config(p)
      [] OTHER -> parse_raw(p)

\* the locals of a running parse_sprite (identifier, sprite) or
\* parse_instruction (mnemonic, operands)
NoCur == [tok |-> NoTok, sprite |-> NoSprite, operands |-> <<>>, commas |-> 0,
          from |-> 0]

\* push_back of a returned statement onto the running loop's vector
DeliverStack(st, s) ==
    IF st = <<>> THEN st
    ELSE [st EXCEPT ![Len(st)].inner = Append(@, s)]
DeliverBranches(st, s) ==
    IF st = <<>> THEN Append(branches, s) ELSE branches

\* an exception leaves the parser: its locals are destroyed
Throw(e, toks, p) ==
    /\ pc' = "error"
    /\ err' = e
    /\ errTokens' = toks
    /\ pos' = p
    /\ stack' = <<>>
    /\ branches' = <<>>
    /\ cur' = NoCur
    /\ UNCHANGED <<input, tokens, statements, words, oobWrite>>

(***************************************************************************)
(* The token collecting loop of main.                                      *)
(***************************************************************************)
\* lexer::next_token, called for the i-th time on a source holding the
\* tokens `src`: the i-th token, and the eof token once the source is used up
next_token(src, i) == IF i <= Len(src) THEN src[i] ELSE EofTok

\* the collecting loop of main: push every token until next_token gives eof
RECURSIVE collect_loop(_, _, _)
collect_loop(src, i, acc) ==
    IF next_token(src, i).type # "eof"
    THEN collect_loop(src, i + 1, Append(acc, next_token(src, i)))
    ELSE acc

collect_tokens(src) == collect_loop(src, 1, <<>>)

HasEof(s) == \E i \in 1..Len(s) : s[i].type = "eof"

(***************************************************************************)
(* abstract_tree::generate.                                                *)
(***************************************************************************)
\* statement::priority, one value for each statement kind
priority(s) ==
    CASE s.kind \in {"define", "config"} -> 3
      [] s.kind = "sprite" -> 2
      [] s.kind \in {"procedure", "label"} -> 1
      [] OTHER -> 0

comp_not_strict(a, b) == priority(a) >= priority(b)

\* the comparison handed to std::ranges::stable_sort
comp(a, b) == priority(a) > priority(b)

\* std::ranges::stable_sort: x goes before exactly the elements it precedes
\* by comp, and stays behind the others
RECURSIVE insert_sorted(_, _)
insert_sorted(s, x) ==
    IF s = <<>> THEN <<x>>
    ELSE IF comp(x, s[Len(s)])
         THEN Append(insert_sorted(SubSeq(s, 1, Len(s) - 1), x), s[Len(s)])
         ELSE Append(s, x)

RECURSIVE sort_prefix(_, _)
sort_prefix(s, n) ==
    IF n = 0 THEN <<>> ELSE insert_sorted(sort_prefix(s, n - 1), s[n])

no_sort(s) == s

stable_sort(s) == sort_prefix(s, Len(s))

Declaring == {"define", "config", "sprite", "label", "procedure"}

\* symbol_sanitizer: the names the tree declares, nested bodies included
RECURSIVE declared(_)
declared(ss) ==
    IF ss = <<>> THEN <<>>
    ELSE LET s == ss[1] IN
         (IF s.kind \in Declaring
          THEN <<[cat |-> s.kind, name |-> s.tok1.str]>> ELSE <<>>)
         \o declared(s.body) \o declared(Tail(ss))

RefCat(o) ==
    CASE o.kind = "label" -> {"label"}
      [] o.kind = "proc" -> {"procedure"}
      [] o.kind = "sprite" -> {"sprite"}
      [] o.kind \in {"immediate", "indirect"} /\ o.tok.type = "identifier" ->
            {"define", "config"}
      [] OTHER -> {}

\* symbol_sanitizer: the symbolic references of the tree
RECURSIVE referenced(_)
referenced(ss) ==
    IF ss = <<>> THEN <<>>
    ELSE LET s == ss[1] IN
         [i \in 1..Len(s.operands) |->
             [cats |-> RefCat(s.operands[i]), name |-> s.operands[i].tok.str]]
         \o referenced(s.body) \o referenced(Tail(ss))

\* abstract_tree::sanitize: the error symbol_sanitizer::traverse raises
sanitize(ss) ==
    LET d == declared(ss)
        r == referenced(ss)
    IN  IF \E i, j \in 1..Len(d) : i < j /\ d[i].name = d[j].name
        THEN "naming_conflict"
        ELSE IF \E i \in 1..Len(r) :
                   /\ r[i].cats # {}
                   /\ ~\E j \in 1..Len(d) :
                          d[j].name = r[i].name /\ d[j].cat \in r[i].cats
        THEN "undefined_symbol"
        ELSE "none"

\* generator::generate: the words of the statements in the order given; an
\* instruction and a raw statement give one word, a sprite its rows, a label
\* and a procedure the words of their bodies
RECURSIVE generator_generate(_)
generator_generate(ss) ==
    IF ss = <<>> THEN <<>>
    ELSE LET s == ss[1] IN
         (CASE s.kind = "instruction" ->
                  <<[op |-> s.tok1.str, args |-> s.operands]>>
            [] s.kind = "raw" ->
                  <<[op |-> "raw", args |-> <<[kind |-> "raw", tok |-> s.tok1]>>]>>
            [] s.kind = "sprite" ->
                  [i \in 1..s.sprite.row_count |->
                      [op |-> "row",
                       args |-> <<[kind |-> "row", tok |-> Num(s.sprite.data[i])]>>]]
            [] s.kind \in {"label", "procedure"} -> generator_generate(s.body)
            [] OTHER -> <<>>)
         \o generator_generate(Tail(ss))

(***************************************************************************)
(* The programs of the model: concatenations of chunks, sprite literals of *)
(* every length up to MAX_SPRITE_ROWS + MaxExtraRows, and statements cut   *)
(* short by the end of the tokens.                                         *)
(***************************************************************************)
Chunks ==
    << <<Tok("keyword_define", "define"), Tok("identifier", "x"), Num(5)>>,
       <<Tok("keyword_config", "config"), Tok("identifier", "c"), Tok("equal", "="),
         Tok("keyword_default", "default")>>,
       <<Tok("keyword_raw", "raw"), Tok("parenthesis_open", "("), Num(7),
         Tok("parenthesis_close", ")")>>,
       <<Tok("keyword_sprite", "sprite"), Tok("identifier", "s"),
         Tok("bracket_open", "["), Num(1), Tok("comma", ","), Num(2),
         Tok("bracket_close", "]")>>,
       <<Tok("dot_label", "."), Tok("identifier", "a"), Tok("colon", ":")>>,
       <<Tok("dot_label", "."), Tok("identifier", "b"), Tok("colon", ":"),
         Tok("instruction", "ret")>>,
       <<Tok("keyword_proc_start", "proc"), Tok("identifier", "foo")>>,
       <<Tok("keyword_proc_end", "endp"), Tok("identifier", "foo")>>,
       <<Tok("keyword_proc_end", "endp"), Tok("identifier", "bar")>>,
       <<Tok("instruction", "ld"), Tok("register_name", "v1"), Tok("comma", ",")>>,
       <<Tok("instruction", "jmp"), Tok("at_label", "@"), Tok("identifier", "a")>>,
       <<Tok("instruction", "drw"), Tok("dollar_proc", "$"), Tok("identifier", "foo"),
         Tok("comma", ","), Tok("hash_sprite", "#"), Tok("identifier", "s"),
         Tok("comma", ","), Tok("bracket_open", "["), Tok("identifier", "x"),
         Tok("bracket_close", "]"), Tok("comma", ","), Num(5)>>,
       <<EofTok>> >>

RECURSIVE Flatten(_)
Flatten(cs) == IF cs = <<>> THEN <<>> ELSE Chunks[cs[1]] \o Flatten(Tail(cs))

ChunkPrograms ==
    { Flatten(cs) : cs \in UNION { [1..n -> 1..Len(Chunks)] : n \in 0..MaxChunks } }

RowValues == {1, 255, 256}

RECURSIVE RowTokens(_)
RowTokens(vals) ==
    IF vals = <<>> THEN <<>>
    ELSE IF Len(vals) = 1 THEN <<Num(vals[1])>>
    ELSE <<Num(vals[1]), Tok("comma", ",")>> \o RowTokens(Tail(vals))

SpriteLiteral(vals) ==
    <<Tok("keyword_sprite", "sprite"), Tok("identifier", "s"), Tok("bracket_open", "[")>>
    \o RowTokens(vals) \o <<Tok("bracket_close", "]")>>

SpriteRowLists ==
    {<<>>} \cup
    { [i \in 1..n |-> IF i = k THEN b ELSE a] :
        n \in 1..(MAX_SPRITE_ROWS + MaxExtraRows), k \in 1..(MAX_SPRITE_ROWS + MaxExtraRows),
        a \in RowValues, b \in RowValues }

\* nothing or one chunk, then a chunk that ends before its last token
CutPrograms ==
    UNION { { c \o SubSeq(Chunks[j], 1, n) :
                c \in {<<>>} \cup { Chunks[i] : i \in 1..Len(Chunks) },
                n \in 1..(Len(Chunks[j]) - 1) } :
            j \in 1..Len(Chunks) }

Inputs == ChunkPrograms \cup { SpriteLiteral(v) : v \in SpriteRowLists }
          \cup CutPrograms

(***************************************************************************)
(* The state machine.                                                      *)
(***************************************************************************)
Init ==
    /\ input \in Inputs
    /\ tokens = <<>>
    /\ pos = 1
    /\ stack = <<>>
    /\ branches = <<>>
    /\ cur = NoCur
    /\ pc = "start"
    /\ err = "none"
    /\ errTokens = <<>>
    /\ statements = <<>>
    /\ words = <<>>
    /\ derefEnd = FALSE
    /\ oobWrite = FALSE

\* main: the tokens of the source are collected, then main returns
\* EXIT_SUCCESS; no parser is constructed
main_collect ==
    /\ pc = "start"
    /\ ~HasEof(input)
    /\ tokens' = collect_tokens(input)
    /\ pc' = "exit"
    /\ UNCHANGED <<input, pos, stack, branches, cur, err, errTokens, statements,
                   words, derefEnd, oobWrite>>

\* parser::parser on a token vector, with or without an eof token
parser_ctor ==
    /\ pc = "start"
    /\ tokens' = input
    /\ pos' = 1
    /\ pc' = "parse"
    /\ UNCHANGED <<input, stack, branches, cur, err, errTokens, statements, words,
                   derefEnd, oobWrite>>

\* make_tree: parse_primary_statement returned no statement
make_tree_return ==
    /\ pc = "parse"
    /\ dispatch = "return_tree"
    /\ statements' = branches
    /\ pc' = "tree"
    /\ derefEnd' = (derefEnd \/ ReadsEnd)
    /\ UNCHANGED <<input, tokens, pos, stack, branches, cur, err, errTokens, words,
                   oobWrite>>

\* a leaf parser returned r to the running statement loop
leaf_returned(r) ==
    IF r.ok
    THEN /\ stack' = DeliverStack(stack, r.stmt)
         /\ branches' = DeliverBranches(stack, r.stmt)
         /\ pos' = r.pos
         /\ UNCHANGED <<input, tokens, cur, pc, err, errTokens, statements, words,
                        oobWrite>>
    ELSE Throw(r.err, carried(r), r.pos)

\* parse_define, parse_config or parse_raw, called by the running dispatcher
parse_leaf ==
    /\ pc = "parse"
    /\ dispatch \in SimpleKinds
    /\ derefEnd' = (derefEnd \/ ReadsEnd)
    /\ \E r \in {parse_simple_statement(dispatch, pos)} : leaf_returned(r)

\* parse_instruction after expect(instruction) returned e: parse_operands starts
mnemonic_read(e) ==
    IF ~e.ok THEN Throw(e.err, carried(e), e.pos)
    ELSE /\ cur' = [NoCur EXCEPT !.tok = e.tok, !.from = pos]
         /\ pos' = e.pos
         /\ pc' = "operands"
         /\ UNCHANGED <<input, tokens, stack, branches, err, errTokens, statements,
                        words, oobWrite>>

\* parser::parse_instruction up to the loop of parse_operands
parse_instruction_begin ==
    /\ pc = "parse"
    /\ dispatch = "instruction"
    /\ derefEnd' = (derefEnd \/ ReadsEnd)
    /\ \E e \in {expect(pos, {"instruction"})} : mnemonic_read(e)

\* parse_operands returned `ops` with the cursor at p: parse_instruction
\* returns its statement to the running statement loop
instruction_returned(ops, commas, p) ==
    /\ stack' = DeliverStack(stack, [Stmt("instruction", cur.tok, NoTok, cur.from, p)
                                       EXCEPT !.operands = ops, !.commas = commas])
    /\ branches' = DeliverBranches(stack, [Stmt("instruction", cur.tok, NoTok,
                                                cur.from, p)
                                             EXCEPT !.operands = ops,
                                                    !.commas = commas])
    /\ pos' = p
    /\ cur' = NoCur
    /\ pc' = "parse"
    /\ UNCHANGED <<input, tokens, err, errTokens, statements, words, oobWrite>>

\* the body of the loop of parse_operands after parse_operand returned o:
\* push_back, then break unless a comma follows
operand_parsed(o) ==
    IF ~o.ok THEN Throw(o.err, carried(o), o.pos)
    ELSE IF advance_if(o.pos, "comma") = o.pos
    THEN instruction_returned(Append(cur.operands, o.operand), cur.commas, o.pos)
    ELSE /\ cur' = [cur EXCEPT !.operands = Append(@, o.operand),
                               !.commas = @ + 1]
         /\ pos' = advance_if(o.pos, "comma")
         /\ UNCHANGED <<input, tokens, stack, branches, pc, err, errTokens,
                        statements, words, oobWrite>>

\* parser::parse_operands: one test of the loop condition and, when it holds,
\* one turn of the loop
parse_operands_step ==
    /\ pc = "operands"
    /\ derefEnd' = (derefEnd \/ guarded_read_outside(pos))
    /\ IF next_any_of(pos, OperandStarters)
       THEN \E o \in {parse_operand(pos)} : operand_parsed(o)
       ELSE instruction_returned(cur.operands, cur.commas, pos)

\* the default branch of the running dispatcher
throw_unexpected ==
    /\ pc = "parse"
    /\ dispatch = "unexpected"
    /\ derefEnd' = (derefEnd \/ ReadsEnd)
    /\ Throw("unexpected_token", <<deref(pos)>>, pos)

\* "Cannot define a procedure inside another."
throw_nested_procedure ==
    /\ pc = "parse"
    /\ dispatch = "nested_procedure"
    /\ derefEnd' = (derefEnd \/ ReadsEnd)
    /\ Throw("nested_procedure", <<>>, pos)

\* "Found unexpected EOF before function end while parsing procedure."
throw_eof_in_procedure ==
    /\ pc = "parse"
    /\ dispatch = "eof_in_procedure"
    /\ derefEnd' = (derefEnd \/ ReadsEnd)
    /\ Throw("eof_in_procedure", <<>>, pos)

Frame(k, name, from) == [kind |-> k, name |-> name, inner |-> <<>>, from |-> from]

Outer == SubSeq(stack, 1, Len(stack) - 1)

\* the header of a label or a procedure was read as r: its statement loop starts
scope_opened(k, r, name) ==
    IF ~r.ok THEN Throw(r.err, carried(r), r.pos)
    ELSE /\ stack' = Append(stack, Frame(k, r.toks[name], pos))
         /\ pos' = r.pos
         /\ UNCHANGED <<input, tokens, branches, cur, pc, err, errTokens,
                        statements, words, oobWrite>>

\* parse_label up to its statement loop
parse_label_begin ==
    /\ pc = "parse"
    /\ dispatch = "label"
    /\ derefEnd' = (derefEnd \/ ReadsEnd)
    /\ \E r \in {expect_all(pos, <<{"dot_label"}, {"identifier"}, {"colon"}>>, <<>>)} :
          scope_opened("label", r, 2)

\* a label or procedure statement s is returned to the caller's loop
scope_closed(s, p) ==
    /\ stack' = DeliverStack(Outer, s)
    /\ branches' = DeliverBranches(Outer, s)
    /\ pos' = p
    /\ UNCHANGED <<input, tokens, cur, pc, err, errTokens, statements, words,
                   oobWrite>>

\* parse_label: its inner dispatcher returned no statement, the label
\* statement goes to the caller
parse_label_return ==
    /\ pc = "parse"
    /\ Ctx = "label"
    /\ dispatch = "end"
    /\ derefEnd' = (derefEnd \/ ReadsEnd)
    /\ scope_closed([Stmt("label", Top.name, NoTok, Top.from, pos)
                       EXCEPT !.body = Top.inner], pos)

\* parse_procedure up to its statement loop
parse_procedure_begin ==
    /\ pc = "parse"
    /\ dispatch = "procedure"
    /\ derefEnd' = (derefEnd \/ ReadsEnd)
    /\ \E r \in {expect_all(pos, <<{"keyword_proc_start"}, {"identifier"}>>, <<>>)} :
          scope_opened("procedure", r, 2)

names_never_differ(proc_name_end, proc_name_beg) == FALSE

\* proc_name_end.data != proc_name_beg.data
names_differ(proc_name_end, proc_name_beg) == ~data_equal(proc_name_end, proc_name_beg)

\* parse_procedure after `endp name` was read as r
procedure_closed(r) ==
    IF ~r.ok THEN Throw(r.err, carried(r), r.pos)
    ELSE IF names_differ(r.toks[2], Top.name)
    THEN Throw("unmatching_procedure_names", <<Top.name, r.toks[2]>>, r.pos)
    ELSE scope_closed([Stmt("procedure", Top.name, r.toks[2], Top.from, r.pos)
                         EXCEPT !.body = Top.inner], r.pos)

\* parse_procedure from the end of its statement loop
parse_procedure_end ==
    /\ pc = "parse"
    /\ Ctx = "procedure"
    /\ dispatch = "end"
    /\ derefEnd' = (derefEnd \/ ReadsEnd)
    /\ \E r \in {expect_all(pos, <<{"keyword_proc_end"}, {"identifier"}>>, <<>>)} :
          procedure_closed(r)

\* parse_sprite after its three expect calls returned r
sprite_opened(r) ==
    IF ~r.ok THEN Throw(r.err, carried(r), r.pos)
    ELSE /\ cur' = [NoCur EXCEPT !.tok = r.toks[2], !.from = pos]
         /\ pos' = r.pos
         /\ pc' = "sprite_row"
         /\ UNCHANGED <<input, tokens, stack, branches, err, errTokens,
                        statements, words, oobWrite>>

\* parse_sprite up to its do-while loop
parse_sprite_begin ==
    /\ pc = "parse"
    /\ dispatch = "sprite"
    /\ derefEnd' = (derefEnd \/ ReadsEnd)
    /\ \E r \in {expect_all(pos, <<{"keyword_sprite"}, {"identifier"},
                                  {"bracket_open"}>>, <<>>)} :
          sprite_opened(r)

row_limit_off_by_one(row_count) == row_count > MAX_SPRITE_ROWS

\* sprite.row_count >= arch::MAX_SPRITE_ROWS
row_limit_reached(row_count) == row_count >= MAX_SPRITE_ROWS

\* sprite.data[sprite.row_count] = value; ++sprite.row_count: the array has
\* MAX_SPRITE_ROWS elements of 8 bits, a write past it is recorded in oobWrite
store_row(sprite, value) ==
    [data |-> IF sprite.row_count < MAX_SPRITE_ROWS
              THEN [sprite.data EXCEPT ![sprite.row_count + 1] = value % 256]
              ELSE sprite.data,
     row_count |-> sprite.row_count + 1]

\* the body of the do-while loop after expect returned e, and its condition
sprite_row_read(e) ==
    IF ~e.ok THEN Throw(e.err, carried(e), e.pos)
    ELSE IF row_limit_reached(cur.sprite.row_count)
    THEN Throw("sprite_too_many_rows", <<cur.tok>>, e.pos)
    ELSE IF ~imm_matches_format_imm8(to_integer(e.tok))
    THEN Throw("sprite_row_out_of_range", <<>>, e.pos)
    ELSE /\ cur' = [cur EXCEPT !.sprite = store_row(cur.sprite, to_integer(e.tok))]
         /\ oobWrite' = (oobWrite \/ cur.sprite.row_count >= MAX_SPRITE_ROWS)
         /\ pos' = advance_if(e.pos, "comma")
         /\ pc' = IF advance_if(e.pos, "comma") # e.pos THEN "sprite_row"
                  ELSE "sprite_end"
         /\ UNCHANGED <<input, tokens, stack, branches, err, errTokens,
                        statements, words>>

\* parse_sprite: one turn of the do-while loop
parse_sprite_row ==
    /\ pc = "sprite_row"
    /\ derefEnd' = (derefEnd \/ guarded_read_outside(pos))
    /\ \E e \in {expect(pos, {"numerical"})} : sprite_row_read(e)

\* parse_sprite after expect(bracket_close) returned e
sprite_closed(e) ==
    IF ~e.ok THEN Throw(e.err, carried(e), e.pos)
    ELSE /\ stack' = DeliverStack(stack, [Stmt("sprite", cur.tok, NoTok,
                                               cur.from, e.pos)
                                            EXCEPT !.sprite = cur.sprite])
         /\ branches' = DeliverBranches(stack, [Stmt("sprite", cur.tok, NoTok,
                                                     cur.from, e.pos)
                                                  EXCEPT !.sprite = cur.sprite])
         /\ pos' = e.pos
         /\ cur' = NoCur
         /\ pc' = "parse"
         /\ UNCHANGED <<input, tokens, err, errTokens, statements, words, oobWrite>>

\* parse_sprite after its loop
parse_sprite_end ==
    /\ pc = "sprite_end"
    /\ derefEnd' = (derefEnd \/ guarded_read_outside(pos))
    /\ \E e \in {expect(pos, {"bracket_close"})} : sprite_closed(e)

\* generate with the exception of sanitize swallowed
generate_sanitize_ignored ==
    /\ pc = "tree"
    /\ pc' = "sanitized"
    /\ UNCHANGED <<input, tokens, pos, stack, branches, cur, statements, words,
                   derefEnd, oobWrite, err, errTokens>>

\* abstract_tree::generate, its first statement: sanitize()
generate_sanitize ==
    /\ pc = "tree"
    /\ IF sanitize(statements) = "none"
       THEN /\ pc' = "sanitized"
            /\ UNCHANGED <<err, errTokens>>
       ELSE /\ pc' = "error"
            /\ err' = sanitize(statements)
            /\ errTokens' = <<>>
    /\ UNCHANGED <<input, tokens, pos, stack, branches, cur, statements, words,
                   derefEnd, oobWrite>>

\* abstract_tree::generate, its second statement: the stable sort
generate_sort ==
    /\ pc = "sanitized"
    /\ statements' = stable_sort(statements)
    /\ pc' = "sorted"
    /\ UNCHANGED <<input, tokens, pos, stack, branches, cur, err, errTokens, words,
                   derefEnd, oobWrite>>

\* abstract_tree::generate, its last statement: the generator runs on the tree
generate_words ==
    /\ pc = "sorted"
    /\ words' = generator_generate(statements)
    /\ pc' = "generated"
    /\ UNCHANGED <<input, tokens, pos, stack, branches, cur, err, errTokens,
                   statements, derefEnd, oobWrite>>

Next ==
    \/ main_collect
    \/ parser_ctor
    \/ make_tree_return
    \/ parse_leaf
    \/ parse_instruction_begin
    \/ parse_operands_step
    \/ parse_label_begin
    \/ parse_label_return
    \/ parse_procedure_begin
    \/ parse_procedure_end
    \/ parse_sprite_begin
    \/ parse_sprite_row
    \/ parse_sprite_end
    \/ throw_unexpected
    \/ throw_nested_procedure
    \/ throw_eof_in_procedure
    \/ generate_sanitize
    \/ generate_sort
    \/ generate_words

Spec == Init /\ [][Next]_vars

FairSpec == Spec /\ WF_vars(Next)

(***************************************************************************)
(* Vocabulary of the properties.                                           *)
(***************************************************************************)
\* the statements of a sequence, those of nested bodies included
RECURSIVE Nested(_)
Nested(ss) ==
    IF ss = <<>> THEN <<>>
    ELSE <<ss[1]>> \o Nested(ss[1].body) \o Nested(Tail(ss))

RECURSIVE FrameInners(_)
FrameInners(st) ==
    IF st = <<>> THEN <<>> ELSE st[1].inner \o FrameInners(Tail(st))

\* every statement a parser has returned so far
Returned == Nested(branches \o statements \o FrameInners(stack))

Range(q) == { q[i] : i \in 1..Len(q) }

Parsing == pc \in {"parse", "operands", "sprite_row", "sprite_end"}
TreeReturned == pc \in {"tree", "sanitized", "sorted", "generated"}
                \/ (pc = "error" /\ err \in {"naming_conflict", "undefined_symbol"})
ParseFailed == pc = "error" /\ ~TreeReturned

OnToken == pos >= 1 /\ pos <= Len(tokens)

\* abstract_tree::generate as a function of the parsed statements: the words,
\* or no words when sanitize throws
generate(ss) ==
    IF sanitize(ss) = "none"
    THEN [error |-> "none", words |-> generator_generate(stable_sort(ss))]
    ELSE [error |-> sanitize(ss), words |-> <<>>]

\* the sequence ss with its i-th statement moved to position j
Move(ss, i, j) ==
    LET rest == SubSeq(ss, 1, i - 1) \o SubSeq(ss, i + 1, Len(ss))
    IN  SubSeq(rest, 1, j - 1) \o <<ss[i]>> \o SubSeq(rest, j, Len(rest))

Between(i, j) == IF i < j THEN (i + 1)..j ELSE j..(i - 1)

(***************************************************************************)
(* C1.  parse_procedure on `proc A <body> endp B`: when the cursor is on   *)
(* endp and an identifier B follows, the procedure statement (A, B, body)  *)
(* is returned to the caller if B equals A, and the unmatching-names       *)
(* exception carrying the tokens A and B is thrown if B differs; no        *)
(* returned procedure statement has two different names.                   *)
(***************************************************************************)
C1_AtEndp ==
    /\ pc = "parse"
    /\ Ctx = "procedure"
    /\ OnToken
    /\ tokens[pos].type = "keyword_proc_end"
    /\ pos + 1 <= Len(tokens)
    /\ tokens[pos + 1].type = "identifier"

C1_Step ==
    C1_AtEndp =>
        LET A == tokens[Top.from + 1]
            B == tokens[pos + 1]
        IN  IF B.str = A.str
            THEN /\ pc' = "parse"
                 /\ err' = "none"
                 /\ Len(stack) = 1 => /\ branches' # <<>>
                                      /\ LET s == branches'[Len(branches')] IN
                                         /\ s.kind = "procedure"
                                         /\ s.tok1 = A
                                         /\ s.tok2 = B
                                         /\ s.body = Top.inner
            ELSE /\ pc' = "error"
                 /\ err' = "unmatching_procedure_names"
                 /\ errTokens' = <<A, B>>
                 /\ statements' = <<>>

C1_NamesMatch ==
    \A s \in Range(Returned) : s.kind = "procedure" => s.tok1.str = s.tok2.str

C1_ProcedureNames == []C1_NamesMatch /\ [][C1_Step]_vars

C1_Witness ==
    \E i \in 1..Len(branches) :
        /\ branches[i].kind = "procedure"
        /\ branches[i].body # <<>>
        /\ branches[i].tok2.str = "foo"

(***************************************************************************)
(* C2.  After the sort of generate, the statements are a permutation of    *)
(* the parsed top-level statements, priorities do not increase along them  *)
(* and statements of equal priority are in source order.                   *)
(***************************************************************************)
C2_StableDescending ==
    pc \in {"sorted", "generated"} =>
        /\ Len(statements) = Len(branches)
        /\ Range(statements) = Range(branches)
        /\ \A i, j \in 1..Len(statements) :
              i < j =>
                /\ statements[i].from # statements[j].from
                /\ priority(statements[i]) >= priority(statements[j])
                /\ priority(statements[i]) = priority(statements[j])
                      => statements[i].from < statements[j].from

C2_Witness ==
    /\ pc = "sorted"
    /\ statements # branches
    /\ \E i, j \in 1..Len(statements) :
          i < j /\ priority(statements[i]) = priority(statements[j])

(***************************************************************************)
(* C3.  Moving a top-level statement to another position leaves the words  *)
(* of generate unchanged when every statement it moves past has a          *)
(* priority other than its own.                                            *)
(***************************************************************************)
C3_MovePastOtherPriorities ==
    pc = "generated" =>
        /\ words = generate(branches).words
        /\ \A i, j \in 1..Len(branches) :
              (\A k \in Between(i, j) : priority(branches[k]) # priority(branches[i]))
                  => generate(Move(branches, i, j)) = generate(branches)

C3_Witness ==
    /\ pc = "generated"
    /\ \E i, j \in 1..Len(branches) :
          /\ i # j
          /\ branches[i].kind \in Declaring
          /\ \A k \in Between(i, j) : priority(branches[k]) # priority(branches[i])
          /\ generator_generate(Move(branches, i, j)) # generator_generate(branches)

\* C3 as stated: moving any declaration anywhere leaves the words unchanged
C3_Original ==
    pc = "generated" =>
        \A i, j \in 1..Len(branches) :
            branches[i].kind \in Declaring
                => generate(Move(branches, i, j)).words = words

(***************************************************************************)
(* C4.  parse_sprite on a literal `sprite name [n, n, ...]`: it is         *)
(* accepted exactly when it has 1 to MAX_SPRITE_ROWS rows, each within 8   *)
(* bits, the stored rows are then the literal's values in order and        *)
(* row_count their number; no row is ever written at an index of           *)
(* MAX_SPRITE_ROWS or more.                                                *)
(***************************************************************************)
\* the values of the numerical tokens of a token sequence, in order
RECURSIVE NumbersOf(_)
NumbersOf(ts) ==
    IF ts = <<>> THEN <<>>
    ELSE (IF ts[1].type = "numerical" THEN <<ts[1].num>> ELSE <<>>)
         \o NumbersOf(Tail(ts))

IsSpriteLiteral(ts) == ts = SpriteLiteral(NumbersOf(ts))

C4_SpriteRows ==
    /\ ~oobWrite
    /\ cur.sprite.row_count <= MAX_SPRITE_ROWS
    /\ \A s \in Range(Returned) : s.sprite.row_count <= MAX_SPRITE_ROWS
    /\ (IsSpriteLiteral(input) /\ (TreeReturned \/ ParseFailed)) =>
          LET rows == NumbersOf(input) IN
          /\ TreeReturned <=>
                /\ Len(rows) >= 1
                /\ Len(rows) <= MAX_SPRITE_ROWS
                /\ \A i \in 1..Len(rows) : rows[i] <= 255
          /\ ~TreeReturned => ParseFailed
          /\ TreeReturned =>
                /\ Len(branches) = 1
                /\ branches[1].kind = "sprite"
                /\ branches[1].sprite.row_count = Len(rows)
                /\ \A i \in 1..Len(rows) : branches[1].sprite.data[i] = rows[i]

C4_Witness ==
    /\ IsSpriteLiteral(input)
    /\ pc = "tree"
    /\ branches[1].sprite.row_count = MAX_SPRITE_ROWS
    /\ branches[1].sprite.data[MAX_SPRITE_ROWS] = 255

(***************************************************************************)
(* C5.  A proc token met while a procedure is open (in its body, or in the *)
(* body of a label nested in it) ends the parse with an exception and no   *)
(* tree; procedure statements are top-level only; a label met in a         *)
(* procedure body is parsed and returned into that body.                   *)
(***************************************************************************)
InProcedure == \E i \in 1..Len(stack) : stack[i].kind = "procedure"

C5_Scopes ==
    /\ \A i \in 1..Len(stack) : stack[i].kind = "procedure" => i = 1
    /\ \A s \in Range(Nested(branches \o statements)) :
          \A t \in Range(Nested(s.body)) : t.kind # "procedure"
    /\ \A t \in Range(Nested(FrameInners(stack))) : t.kind # "procedure"

C5_Step ==
    /\ (pc = "parse" /\ InProcedure /\ OnToken
          /\ tokens[pos].type = "keyword_proc_start")
          => /\ pc' = "error"
             /\ err' = IF Ctx = "procedure" THEN "nested_procedure"
                       ELSE "unexpected_token"
             /\ statements' = <<>>
             /\ branches' = <<>>
    /\ (pc = "parse" /\ Ctx = "label" /\ Len(stack) = 2
          /\ stack[1].kind = "procedure" /\ label_inner_statement(pos) = "end")
          => /\ Len(stack') = 1
             /\ Len(stack'[1].inner) = Len(stack[1].inner) + 1
             /\ LET s == stack'[1].inner[Len(stack'[1].inner)] IN
                /\ s.kind = "label"
                /\ s.tok1 = Top.name
                /\ s.body = Top.inner
             /\ err' = "none"

C5_ProcedureScoping == []C5_Scopes /\ [][C5_Step]_vars

C5_Witness ==
    \E i \in 1..Len(branches) :
        /\ branches[i].kind = "procedure"
        /\ \E k \in 1..Len(branches[i].body) :
              /\ branches[i].body[k].kind = "label"
              /\ branches[i].body[k].body # <<>>

(***************************************************************************)
(* C6.  Every comma parse_operands consumes separates two operands: an     *)
(* instruction with n >= 1 operands consumed n - 1 commas, one without     *)
(* operands none.                                                          *)
(***************************************************************************)
C6_CommasSeparateOperands ==
    \A s \in Range(Returned) :
        s.kind = "instruction" =>
            s.commas = IF s.operands = <<>> THEN 0 ELSE Len(s.operands) - 1

(***************************************************************************)
(* C7.  make_tree on the complete token sequence of a program, the one     *)
(* that ends with the eof token: the eof token raises no unexpected-token  *)
(* exception, make_tree parses until the tokens are used up and returns    *)
(* the statements in source order.                                         *)
(***************************************************************************)
\* the token vector is a complete sequence: eof is its last token, and only that
Complete(s) ==
    /\ s # <<>>
    /\ s[Len(s)].type = "eof"
    /\ ~HasEof(SubSeq(s, 1, Len(s) - 1))

C7_HandOff ==
    Complete(tokens) =>
        /\ ~(pc = "error" /\ err = "unexpected_token" /\ errTokens = <<EofTok>>)
        /\ pc = "tree" => pos = Len(tokens) + 1

(***************************************************************************)
(* C8.  parse_label: after `.name:` the define, config, raw and            *)
(* instruction statements that follow become the label's body, in order;   *)
(* another label, a procedure end or the end of the tokens ends the body   *)
(* without an error and is left unconsumed; any other token at a statement *)
(* position of the body raises the unexpected-token error.  A label body   *)
(* holds no label, procedure or sprite statement.                          *)
(***************************************************************************)
\* a body starting at cursor `first` holds leaf statements, each starting
\* where the one before ended
LeafBody(body, first) ==
    \A i \in 1..Len(body) :
        /\ body[i].kind \in LeafKinds
        /\ body[i].body = <<>>
        /\ body[i].from = IF i = 1 THEN first ELSE body[i - 1].upto

C8_Bodies ==
    /\ \A s \in Range(Returned) :
          s.kind = "label" =>
             /\ LeafBody(s.body, s.from + 3)
             /\ s.upto = IF s.body = <<>> THEN s.from + 3
                         ELSE s.body[Len(s.body)].upto
    /\ \A i \in 1..Len(stack) :
          stack[i].kind = "label" => LeafBody(stack[i].inner, stack[i].from + 3)

\* the vector the statement returned by the innermost open call goes to
CallerVector(st, br) == IF Len(st) = 0 THEN br ELSE st[Len(st)].inner

LeafOfToken(t) ==
    CASE t = "keyword_define" -> "define"
      [] t = "keyword_config" -> "config"
      [] OTHER -> "raw"

C8_Step ==
    (pc = "parse" /\ Ctx = "label") =>
        IF ~OnToken \/ tokens[pos].type \in {"dot_label", "keyword_proc_end"}
        THEN /\ pos' = pos
             /\ pc' = "parse"
             /\ err' = "none"
             /\ Len(stack') = Len(stack) - 1
             /\ LET v == CallerVector(stack', branches') IN
                /\ Len(v) = Len(CallerVector(Outer, branches)) + 1
                /\ v[Len(v)].kind = "label"
                /\ v[Len(v)].tok1 = Top.name
                /\ v[Len(v)].body = Top.inner
        ELSE IF tokens[pos].type = "instruction"
        THEN /\ pc' = "operands"
             /\ err' = "none"
             /\ stack' = stack
             /\ pos' = pos + 1
             /\ cur'.from = pos
        ELSE IF tokens[pos].type \in {"keyword_define", "keyword_config", "keyword_raw"}
        THEN \/ /\ pc' = "error"
                /\ err' \in {"unexpected_token", "expected_more_tokens"}
             \/ /\ pc' = "parse"
                /\ err' = "none"
                /\ Len(stack') = Len(stack)
                /\ Len(stack'[Len(stack')].inner) = Len(Top.inner) + 1
                /\ SubSeq(stack'[Len(stack')].inner, 1, Len(Top.inner)) = Top.inner
                /\ LET s == stack'[Len(stack')].inner[Len(Top.inner) + 1] IN
                   /\ s.kind = LeafOfToken(tokens[pos].type)
                   /\ s.from = pos
                   /\ s.upto = pos'
        ELSE /\ pc' = "error"
             /\ err' = "unexpected_token"
             /\ errTokens' = <<tokens[pos]>>

\* an instruction parsed in a label body is returned into that body
C8_InstructionStep ==
    (pc = "operands" /\ pc' = "parse" /\ Ctx = "label") =>
        /\ Len(stack') = Len(stack)
        /\ Len(stack'[Len(stack')].inner) = Len(Top.inner) + 1
        /\ SubSeq(stack'[Len(stack')].inner, 1, Len(Top.inner)) = Top.inner
        /\ LET s == stack'[Len(stack')].inner[Len(Top.inner) + 1] IN
           /\ s.kind = "instruction"
           /\ s.from = cur.from
           /\ s.upto = pos'

C8_LabelBody == []C8_Bodies /\ [][C8_Step /\ C8_InstructionStep]_vars

C8_Witness ==
    /\ Len(branches) >= 2
    /\ branches[1].kind = "label"
    /\ Len(branches[1].body) >= 1
    /\ branches[2].kind = "label"
    /\ branches[2].from = branches[1].upto

(***************************************************************************)
(* C9.  generate runs sanitize first: the statements keep their parsed     *)
(* order until sanitize has returned without an exception, the generator   *)
(* runs only after the sort, and when sanitize throws nothing more happens:*)
(* the statements stay in parsed order and no words are produced.          *)
(***************************************************************************)
SanitizeErrors == {"naming_conflict", "undefined_symbol"}

C9_Stages ==
    /\ pc \in {"tree", "sanitized"} => statements = branches
    /\ (pc = "error" /\ err \in SanitizeErrors) =>
          /\ statements = branches
          /\ sanitize(branches) = err
    /\ pc \in {"sanitized", "sorted", "generated"} => sanitize(branches) = "none"
    /\ pc \in {"sorted", "generated"} => statements = stable_sort(branches)
    /\ pc = "generated" => words = generator_generate(statements)
    /\ pc # "generated" => words = <<>>

C9_Step ==
    /\ pc = "tree" =>
          /\ statements' = statements
          /\ words' = words
          /\ IF sanitize(statements) = "none"
             THEN pc' = "sanitized" /\ err' = "none"
             ELSE pc' = "error" /\ err' = sanitize(statements)
    /\ pc = "error" => pc' = "error" /\ statements' = statements /\ words' = words
    /\ (pc' = "generated" /\ pc # "generated") => pc = "sorted"
    /\ (pc' = "sorted" /\ pc # "sorted") => pc = "sanitized"

C9_FailFast == []C9_Stages /\ [][C9_Step]_vars

C9_Witness ==
    /\ pc = "error"
    /\ err \in SanitizeErrors
    /\ statements = branches
    /\ stable_sort(branches) # branches
    /\ generator_generate(branches) # <<>>

(***************************************************************************)
(* C10.  The parser terminates: the cursor stays within 1..Len(tokens)+1   *)
(* and never moves back, it is never read outside the tokens, every        *)
(* returned statement consumed at least one token, every step of the       *)
(* parser lowers a non-negative measure, and every run ends (under weak    *)
(* fairness of the program's steps): main returns, or make_tree returns a  *)
(* tree or throws.  At the end of the tokens an open procedure raises the  *)
(* unexpected-EOF exception, and advance raises its own, leaving the       *)
(* cursor at the end: a statement cut short by the end of the tokens ends  *)
(* the parse with that exception.  The reads of advance_if and next_any_of *)
(* are taken to sit behind a no_more_tokens test, as advance's does.       *)
(***************************************************************************)
Rank ==
    IF Parsing
    THEN 4 * (Len(tokens) + 1 - pos) + Len(stack) + (IF pc = "operands" THEN 2 ELSE 1)
    ELSE 0

C10_Cursor ==
    /\ pos >= 1
    /\ pos <= Len(tokens) + 1
    /\ ~derefEnd
    /\ \A s \in Range(Returned) : s.from < s.upto
    /\ err = "expected_more_tokens" => pc = "error" /\ pos = Len(tokens) + 1

C10_Step ==
    /\ pos' >= pos
    /\ Parsing => Rank' < Rank
    /\ (pc = "parse" /\ Ctx = "procedure" /\ pos = Len(tokens) + 1)
          => pc' = "error" /\ err' = "eof_in_procedure"
    /\ (pc \in {"sprite_row", "sprite_end"} /\ pos = Len(tokens) + 1)
          => pc' = "error" /\ err' = "expected_more_tokens"
    /\ (pc = "parse" /\ OnToken /\ pos' = Len(tokens) + 1 /\ pc' = "error")
          => err' \in {"expected_more_tokens", "unexpected_token",
                      "unmatching_procedure_names"}

====
